---- MODULE Spec2Model ----
(***************************************************************************)
(* A model of qianka-cache: the sharded RedisCache (redis_cache.py) over a *)
(* consistent-hash ring, and the QKCache manager (cache.py) that builds    *)
(* named instances lazily under a lock, optionally per scope.              *)
(***************************************************************************)
EXTENDS Integers, Sequences, FiniteSets, TLC

VARIABLES
    \* ---- the backing redis nodes and one RedisCache instance ----
    store,      \* url -> (physical key -> entry): the redis databases
    inst,       \* the RedisCache instance the verbs are called on
    clients,    \* inst.clients: url -> handle id, 0 when none yet
    last,       \* the call in progress: its arguments and its outcome; Idle
                \* between calls
    hist,       \* per key, the value and timeout a set_many last wrote it
                \* with, and the seconds passed since
    th,         \* each thread's position and locals inside a RedisCache
                \* method it runs step by step
    made,       \* url -> how many handles from_url has created for it
    \* ---- the QKCache manager ----
    config,     \* QKCache._config
    instances,  \* QKCache._instances: name -> object, NoObject when absent
    registry,   \* cache.registry: scope key -> (name -> object)
    scoped,     \* whether scoped_cache has replaced get_instances
    built,      \* per instance map and name, how many instances have been
                \* constructed since the map was last cleared
    lock,       \* holder of QKCache._instances_lock, 0 when free
    resets,     \* how often each instance map has been cleared by reset()
    pc,         \* each thread's position
    tv          \* each thread's locals

vars == <<store, inst, clients, last, hist, th, made, config, instances,
          registry, scoped, built, lock, resets, pc, tv>>
cacheVars == <<store, inst, clients, last, hist, th, made>>
mgrVars == <<config, instances, registry, scoped, built, lock, resets, pc, tv>>

-----------------------------------------------------------------------------
(* Bounds of the model.                                                    *)

MaxTimeout == 1     \* timeouts passed to the verbs are 0..MaxTimeout
MaxCounter == 2     \* counters stay in -MaxCounter..MaxCounter
MaxDelta == 2       \* inc/dec deltas are 1..MaxDelta
MaxKeysLen == 3     \* get_many / delete_many take up to this many keys
MaxInst == 2        \* constructions per map and name between two resets
MaxResets == 1      \* reset() clears an instance map at most this often

-----------------------------------------------------------------------------
(* Python values.  One record shape, so that any two can be compared.      *)

Py(t, n, s, items) == [t |-> t, n |-> n, s |-> s, items |-> items]
PyNone == Py("none", 0, "", <<>>)
PyInt(n) == Py("int", n, "", <<>>)
PyStr(s) == Py("str", 0, s, <<>>)
PyBool(b) == Py("bool", IF b THEN 1 ELSE 0, "", <<>>)
\* bytes as redis holds them: enc tells how they were produced
PyBytes(enc, s) == Py(enc, 0, s, <<>>)
PyList(seq) == Py("list", Len(seq), "", seq)
\* a raised exception, as the outcome of a call
Raised(kind) == Py("raise", 0, kind, <<>>)

IsRaised(v) == v.t = "raise"

\* str(n), for the integers of the model
Digit(d) ==
    CASE d = 0 -> "0" [] d = 1 -> "1" [] d = 2 -> "2" [] d = 3 -> "3"
      [] d = 4 -> "4" [] d = 5 -> "5" [] d = 6 -> "6" [] d = 7 -> "7"
      [] d = 8 -> "8" [] d = 9 -> "9"

RECURSIVE NatToStr(_)
NatToStr(n) ==
    IF n < 10 THEN Digit(n) ELSE NatToStr(n \div 10) \o Digit(n % 10)

IntToStr(n) == IF n < 0 THEN "-" \o NatToStr(0 - n) ELSE NatToStr(n)

\* the integers whose text the model can meet
IntRange == (0 - (MaxCounter + MaxDelta)) .. (MaxCounter + MaxDelta)

\* int(s) succeeds on the texts of integers and gives the integer
IntTexts == {IntToStr(n) : n \in IntRange}
IntOfText == [s \in IntTexts |-> CHOOSE n \in IntRange : IntToStr(n) = s]
IsIntText(s) == s \in IntTexts
ParseInt(s) == IntOfText[s]

-----------------------------------------------------------------------------
(* The inputs the verbs are called with.                                   *)

Keys == {"a", "b"}
Prefixes == {"", "p:"}
Values == {PyInt(1), PyStr("x"), PyStr("1")}
\* a timeout argument is None or a number of seconds
Timeouts == {PyNone} \cup {PyInt(n) : n \in 0 .. MaxTimeout}
DefaultTimeouts == {0, MaxTimeout}
Deltas == 1 .. MaxDelta
Urls == {"redis://n1", "redis://n2"}
\* the prefix a new QKCache starts with (cache.py:29)
DefaultPrefix == "qianka"
\* a prefix that holds a character KEYS reads as a wildcard
GlobPrefix == "p?"
AllPrefixes == Prefixes \cup {DefaultPrefix, GlobPrefix}
PhysKeys == {p \o k : p \in AllPrefixes, k \in Keys}

-----------------------------------------------------------------------------
(* The marshal module (msgpack, cache.py:99) and the object codec.         *)

\* msgpack.dumps: bytes pack as bin, text packs as str
marshal_dumps(v) ==
    IF v.t = "bytes" THEN PyBytes("mpbin", v.s) ELSE PyBytes("mpstr", v.s)

\* the value of a one-byte message: a positive fixint, the byte itself
CharCode(s) ==
    CASE s = "x" -> 120
      [] OTHER -> 48 + ParseInt(s)

\* msgpack.loads(encoding='utf-8'): bin and str both come back as text;
\* bytes that no dumps produced (a counter written by INCRBY, a raw set)
\* decode as a fixint when one byte long and raise ExtraData otherwise
marshal_loads(b) ==
    CASE b.t \in {"mpbin", "mpstr"} -> PyStr(b.s)
      [] b.t = "bytes" /\ Len(b.s) = 1 -> PyInt(CharCode(b.s))
      [] OTHER -> Raised("ExtraData")

dump_object(value) ==
    IF value.t = "int"
    THEN marshal_dumps(PyBytes("bytes", IntToStr(value.n)))
    ELSE marshal_dumps(value)

load_object(value) ==
    IF value = PyNone THEN PyNone
    ELSE LET v == marshal_loads(value) IN
         IF v.t = "str" /\ IsIntText(v.s) THEN PyInt(ParseInt(v.s)) ELSE v

\* what redis-py sends for a value passed raw
RawBytes(value) ==
    IF value.t = "int" THEN PyBytes("bytes", IntToStr(value.n))
    ELSE PyBytes("bytes", value.s)

-----------------------------------------------------------------------------
(* HashRing (hash_ring.py): a sorted table of virtual points, weight times *)
(* Replicas per node, on a modular ring; a key belongs to the first point  *)
(* at or after its hash, wrapping to the smallest point.                   *)

Replicas == 2
RingSize == 64

NodeSeed(url) ==
    CASE url = "redis://n1" -> 1
      [] url = "redis://n2" -> 2
      [] OTHER -> 3

\* the position of a node's i-th virtual point
PointHash(url, i) == (NodeSeed(url) * 23 + i * 9) % RingSize

\* the position of a key
KeyHash(key) ==
    CASE key = "a" -> 10
      [] key = "b" -> 50
      [] key = "p:a" -> 45
      [] key = "p:b" -> 60
      [] key = "qiankaa" -> 5
      [] key = "qiankab" -> 52
      [] key = "p?a" -> 20
      [] key = "p?b" -> 48
      [] OTHER -> 0

\* HashRing(nodes, weights): weights is a map url -> weight, or None
HashRing(nodes, weighted, weights) ==
    UNION { { <<PointHash(nodes[j], i), nodes[j]>> :
                i \in 1 .. ((IF weighted THEN weights[nodes[j]] ELSE 1) * Replicas) } :
            j \in 1 .. Len(nodes) }

PointBefore(p, q) ==
    \/ p[1] < q[1]
    \/ p[1] = q[1] /\ NodeSeed(p[2]) <= NodeSeed(q[2])

FirstPoint(points) == CHOOSE p \in points : \A q \in points : PointBefore(p, q)

get_node(ring, key) ==
    LET h == KeyHash(key)
        after == {p \in ring : p[1] >= h}
    IN  IF after = {} THEN FirstPoint(ring)[2] ELSE FirstPoint(after)[2]

-----------------------------------------------------------------------------
(* RedisCache: construction, key and connection helpers.                   *)

\* hosts: the urls in order, and the weights when every host carries one
Hosts(nodes, weighted, weights) ==
    [nodes |-> nodes, weighted |-> weighted, weights |-> weights]

NoWeights == [u \in Urls |-> 1]

\* RedisCache.__init__; kind tells a RedisCache from a NullCache
RedisCache(hosts, key_prefix, default_timeout) ==
    [kind |-> "redis",
     key_prefix |-> key_prefix,
     default_timeout |-> default_timeout,
     nodes |-> hosts.nodes,
     ring |-> HashRing(hosts.nodes, hosts.weighted, hosts.weights)]

get_expiration(c, timeout) ==
    LET t1 == IF timeout = PyNone THEN c.default_timeout ELSE timeout.n
    IN  IF t1 = 0 THEN -1 ELSE t1

get_key(c, k) == c.key_prefix \o k

key_to_url(c, key) == get_node(c.ring, key)

\* the redis databases and this instance's clients map (url -> handle id,
\* 0 when the url has no client yet)
World(st, cl) == [store |-> st, clients |-> cl]

NewHandle(cl) ==
    1 + Cardinality({u \in DOMAIN cl : cl[u] # 0})

get_connection(w, url) ==
    IF w.clients[url] # 0 THEN w
    ELSE [w EXCEPT !.clients[url] = NewHandle(w.clients)]

key_to_conn(c, w, key) == get_connection(w, key_to_url(c, key))

\* what a verb gives back: its return value (or the exception) and the world
Out(ret, w) == [ret |-> ret, w |-> w]

-----------------------------------------------------------------------------
(* The redis commands the client issues, on one database: a map from key   *)
(* to entry.  An entry's ttl is the seconds it has left, 0 for no expiry.  *)

Absent == [has |-> FALSE, enc |-> "", s |-> "", ttl |-> 0]
Entry(bytes, ttl) == [has |-> TRUE, enc |-> bytes.t, s |-> bytes.s, ttl |-> ttl]
EmptyDb == [k \in PhysKeys |-> Absent]

\* GET
redis_get(db, k) == IF db[k].has THEN PyBytes(db[k].enc, db[k].s) ELSE PyNone
\* EXISTS
redis_exists(db, k) == db[k].has
\* SET: the value, and no expiry
redis_set(db, k, bytes) == [db EXCEPT ![k] = Entry(bytes, 0)]
\* SETEX: the value, expiring in time seconds
redis_setex(db, k, time, bytes) == [db EXCEPT ![k] = Entry(bytes, time)]
\* a SETNX that writes over the value a key holds
setnx_over(db, k, bytes) == [db EXCEPT ![k] = Entry(bytes, 0)]

\* SETNX: true when the key was absent and is now set, without expiry
redis_setnx_ok(db, k) == ~db[k].has
redis_setnx(db, k, bytes) ==
    IF db[k].has THEN db ELSE [db EXCEPT ![k] = Entry(bytes, 0)]
\* EXPIRE: false on a missing key; a time that is not positive deletes the key
redis_expire_ok(db, k) == db[k].has
redis_expire(db, k, time) ==
    IF ~db[k].has THEN db
    ELSE IF time <= 0 THEN [db EXCEPT ![k] = Absent]
    ELSE [db EXCEPT ![k].ttl = time]
\* a DEL that answers 1 however many keys it removed
delete_flag(db, ks) == 1

\* DEL: the number of keys removed
redis_delete_count(db, ks) == Cardinality({k \in ks : db[k].has})
redis_delete(db, ks) == [k \in DOMAIN db |-> IF k \in ks THEN Absent ELSE db[k]]
\* INCRBY / DECRBY: a missing key counts from 0; the expiry is kept; a value
\* that is not the text of an integer is an error
IsCounter(e) == ~e.has \/ (e.enc = "bytes" /\ IsIntText(e.s))
CounterValue(e) == IF e.has THEN ParseInt(e.s) ELSE 0
redis_incrby(db, k, amount) ==
    [db EXCEPT ![k] = Entry(PyBytes("bytes", IntToStr(CounterValue(db[k]) + amount)),
                            db[k].ttl)]
\* MGET: the values in the order of the keys
redis_mget(db, ks) == [i \in 1 .. Len(ks) |-> redis_get(db, ks[i])]
\* MSET of the pairs, in order
RECURSIVE redis_mset(_, _)
redis_mset(db, kvs) ==
    IF kvs = <<>> THEN db
    ELSE redis_mset(redis_set(db, Head(kvs)[1], Head(kvs)[2]), Tail(kvs))
\* a pipeline of SET, which sets no expiry
pipe_set(db, kvs, time) == redis_mset(db, kvs)

\* a pipeline of SETEX, in order
RECURSIVE redis_pipe_setex(_, _, _)
redis_pipe_setex(db, kvs, time) ==
    IF kvs = <<>> THEN db
    ELSE redis_pipe_setex(redis_setex(db, Head(kvs)[1], time, Head(kvs)[2]),
                          Tail(kvs), time)

\* the characters of a key or of a KEYS pattern of the model
PrefixChars(p) ==
    CASE p = "" -> <<>>
      [] p = "p:" -> <<"p", ":">>
      [] p = "p?" -> <<"p", "?">>
      [] p = "qianka" -> <<"q", "i", "a", "n", "k", "a">>
Chars(s) ==
    LET d == CHOOSE d \in AllPrefixes \X (Keys \cup {"*"}) : s = d[1] \o d[2]
    IN  PrefixChars(d[1]) \o <<d[2]>>

\* redis glob matching: * stands for any run of characters, ? for any one
\* character, every other character for itself
RECURSIVE GlobMatch(_, _)
GlobMatch(pat, str) ==
    IF pat = <<>> THEN str = <<>>
    ELSE IF Head(pat) = "*"
         THEN \E n \in 0 .. Len(str) :
                 GlobMatch(Tail(pat), SubSeq(str, n + 1, Len(str)))
    ELSE IF str = <<>> THEN FALSE
    ELSE /\ Head(pat) = "?" \/ Head(pat) = Head(str)
         /\ GlobMatch(Tail(pat), Tail(str))

\* KEYS pattern: the keys the pattern matches
redis_keys(db, pattern) ==
    {k \in DOMAIN db : db[k].has /\ GlobMatch(Chars(pattern), Chars(k))}
\* FLUSHDB
redis_flushdb(db) == [k \in DOMAIN db |-> Absent]

\* one second passes on every node: expiries count down, and a key whose
\* time is up is gone
Expire1(e) ==
    IF e.has /\ e.ttl = 1 THEN Absent
    ELSE IF e.has /\ e.ttl > 1 THEN [e EXCEPT !.ttl = e.ttl - 1]
    ELSE e
SecondPasses(st) == [u \in DOMAIN st |-> [k \in DOMAIN st[u] |-> Expire1(st[u][k])]]

WithDb(w, url, db) == [w EXCEPT !.store[url] = db]

-----------------------------------------------------------------------------
(* RedisCache: the single-key verbs.                                       *)

exists(c, w, key) ==
    LET k == get_key(c, key)
        url == key_to_url(c, k)
        w1 == get_connection(w, url)
    IN  Out(PyBool(redis_exists(w1.store[url], k)), w1)

get(c, w, key, raw) ==
    LET k == get_key(c, key)
        url == key_to_url(c, k)
        w1 == get_connection(w, url)
        got == redis_get(w1.store[url], k)
    IN  IF raw THEN Out(got, w1) ELSE Out(load_object(got), w1)

set(c, w, key, value, timeout, raw) ==
    LET t == get_expiration(c, timeout)
        dump == IF raw THEN RawBytes(value) ELSE dump_object(value)
        k == get_key(c, key)
        url == key_to_url(c, k)
        w1 == get_connection(w, url)
        db == w1.store[url]
    IN  IF t = -1
        THEN Out(PyBool(TRUE), WithDb(w1, url, redis_set(db, k, dump)))
        ELSE Out(PyBool(TRUE), WithDb(w1, url, redis_setex(db, k, t, dump)))

add(c, w, key, value, timeout) ==
    LET t == get_expiration(c, timeout)
        dump == dump_object(value)
        k == get_key(c, key)
        url == key_to_url(c, k)
        w1 == get_connection(w, url)
        db == w1.store[url]
        db1 == redis_setnx(db, k, dump)
    IN  IF ~redis_setnx_ok(db, k) THEN Out(PyBool(FALSE), w1)
        ELSE Out(PyBool(redis_expire_ok(db1, k)),
                 WithDb(w1, url, redis_expire(db1, k, t)))

delete(c, w, key) ==
    LET k == get_key(c, key)
        url == key_to_url(c, k)
        w1 == get_connection(w, url)
        db == w1.store[url]
    IN  Out(PyInt(redis_delete_count(db, {k})), WithDb(w1, url, redis_delete(db, {k})))

\* inc and dec differ in the sign of the amount: sign is 1 or -1
Counter(c, w, key, delta, timeout, sign) ==
    LET t == get_expiration(c, timeout)
        k == get_key(c, key)
        url == key_to_url(c, k)
        w1 == get_connection(w, url)
        db == w1.store[url]
        db1 == redis_incrby(db, k, sign * delta)
    IN  IF ~IsCounter(db[k]) THEN Out(Raised("ResponseError"), w1)
        ELSE Out(PyInt(CounterValue(db1[k])),
                 WithDb(w1, url, redis_expire(db1, k, t)))

inc(c, w, key, delta, timeout) == Counter(c, w, key, delta, timeout, 1)

dec(c, w, key, delta, timeout) == Counter(c, w, key, delta, timeout, -1)

-----------------------------------------------------------------------------
(* RedisCache: grouping by node and the batch verbs.                       *)

\* the two functions each caller hands to _group_by_url.  kind "key": the
\* items are keys (get_many); "item" and "rawitem": they are (key, value)
\* pairs, dumped or raw (set_many)
func_handle_arg(c, kind, x) ==
    CASE kind = "key" -> <<get_key(c, x)>>
      [] kind = "item" -> <<get_key(c, x[1]), dump_object(x[2])>>
      [] kind = "rawitem" -> <<get_key(c, x[1]), RawBytes(x[2])>>

\* the node of the key without its prefix
url_of_bare_key(c, kind, x) ==
    IF kind = "key" THEN key_to_url(c, x) ELSE key_to_url(c, x[1])

func_get_url(c, kind, x) ==
    IF kind = "key" THEN key_to_url(c, get_key(c, x))
    ELSE key_to_url(c, get_key(c, x[1]))

\* url_dict[url].append((pos, arg)) on a dict that keeps insertion order:
\* a sequence of groups, each a url and its list
GroupIndex(d, url) ==
    IF \E j \in 1 .. Len(d) : d[j].url = url
    THEN CHOOSE j \in 1 .. Len(d) : d[j].url = url
    ELSE 0

DictAppend(d, url, item) ==
    IF GroupIndex(d, url) = 0
    THEN Append(d, [url |-> url, items |-> <<item>>])
    ELSE [d EXCEPT ![GroupIndex(d, url)].items = Append(@, item)]

RECURSIVE GroupFold(_, _)
GroupFold(pos_arg_urls, d) ==
    IF pos_arg_urls = <<>> THEN d
    ELSE LET x == Head(pos_arg_urls)
         IN  GroupFold(Tail(pos_arg_urls), DictAppend(d, x.url, <<x.pos, x.arg>>))

\* positions are counted from 0, as enumerate does
group_by_url(c, iterable, kind) ==
    LET pos_arg_urls ==
            [i \in 1 .. Len(iterable) |->
                [pos |-> i - 1,
                 arg |-> func_handle_arg(c, kind, iterable[i]),
                 url |-> func_get_url(c, kind, iterable[i])]]
    IN  GroupFold(pos_arg_urls, <<>>)

\* sorted(results, key=pos): a stable insertion sort
RECURSIVE InsertByPos(_, _)
InsertByPos(x, sorted) ==
    IF sorted = <<>> THEN <<x>>
    ELSE IF x[1] < Head(sorted)[1] THEN <<x>> \o sorted
    ELSE <<Head(sorted)>> \o InsertByPos(x, Tail(sorted))

\* results left in the order the groups gave them
Unsorted(results) == results

RECURSIVE SortedByPos(_)
SortedByPos(results) ==
    IF results = <<>> THEN <<>>
    ELSE InsertByPos(results[Len(results)], SortedByPos(SubSeq(results, 1, Len(results) - 1)))

\* the body of get_many's loop for one group: the positions zipped with the
\* node's answers
GroupResults(db, pos_key_list, raw) ==
    LET key_tuple == [i \in 1 .. Len(pos_key_list) |-> pos_key_list[i][2][1]]
        result_list == redis_mget(db, key_tuple)
    IN  [i \in 1 .. Len(pos_key_list) |->
            <<pos_key_list[i][1],
              IF raw THEN result_list[i] ELSE load_object(result_list[i])>>]

\* the loop over url_dict.items(), taken in the given order of the groups
RECURSIVE GetManyLoop(_, _, _, _, _)
GetManyLoop(w, url_dict, order, raw, results) ==
    IF order = <<>> THEN [w |-> w, results |-> results]
    ELSE LET g == url_dict[Head(order)]
             w1 == get_connection(w, g.url)
             got == GroupResults(w1.store[g.url], g.items, raw)
         IN  IF \E i \in 1 .. Len(got) : IsRaised(got[i][2])
             THEN [w |-> w1, results |-> <<>>, raised |-> TRUE]
             ELSE GetManyLoop(w1, url_dict, Tail(order), raw, results \o got)

get_many(c, w, keys, raw, order) ==
    LET url_dict == group_by_url(c, keys, "key")
        done == GetManyLoop(w, url_dict, order, raw, <<>>)
        sorted == SortedByPos(done.results)
    IN  IF "raised" \in DOMAIN done THEN Out(Raised("ExtraData"), done.w)
        ELSE Out(PyList([i \in 1 .. Len(sorted) |-> sorted[i][2]]), done.w)

\* the loop of set_many over url_dict.items(): one MSET per node when the
\* timeout is infinite, else a pipeline of SETEX
RECURSIVE SetManyLoop(_, _, _, _)
SetManyLoop(w, url_dict, t, results) ==
    IF url_dict = <<>> THEN [w |-> w, results |-> results]
    ELSE LET g == Head(url_dict)
             w1 == get_connection(w, g.url)
             db == w1.store[g.url]
             kv_tuple == [i \in 1 .. Len(g.items) |-> g.items[i][2]]
         IN  IF t = -1
             THEN SetManyLoop(WithDb(w1, g.url, redis_mset(db, kv_tuple)),
                              Tail(url_dict), t, Append(results, TRUE))
             ELSE SetManyLoop(WithDb(w1, g.url, redis_pipe_setex(db, kv_tuple, t)),
                              Tail(url_dict), t,
                              results \o [i \in 1 .. Len(kv_tuple) |-> TRUE])

\* mapping: the (key, value) pairs of mapping.items(), keys distinct
set_many(c, w, mapping, raw, timeout) ==
    LET t == get_expiration(c, timeout)
        url_dict == group_by_url(c, mapping, IF raw THEN "rawitem" ELSE "item")
        done == SetManyLoop(w, url_dict, t, <<>>)
    IN  Out(PyBool(\A i \in 1 .. Len(done.results) : done.results[i] = TRUE), done.w)

RECURSIVE DeleteLoop(_, _, _, _)
DeleteLoop(c, w, keys, results) ==
    IF keys = <<>> THEN Out(PyList(results), w)
    ELSE LET o == delete(c, w, Head(keys))
         IN  DeleteLoop(c, o.w, Tail(keys), Append(results, o.ret))

delete_many(c, w, keys) ==
    IF keys = <<>> THEN Out(PyNone, w) ELSE DeleteLoop(c, w, keys, <<>>)

\* clear: node by node in the order of the hosts; status is what the last
\* node that had something to do gave
RECURSIVE ClearLoop(_, _, _, _)
ClearLoop(c, w, nodes, status) ==
    IF nodes = <<>> THEN Out(status, w)
    ELSE LET url == Head(nodes)
             w1 == get_connection(w, url)
             db == w1.store[url]
             keys == redis_keys(db, get_key(c, "*"))
         IN  IF c.key_prefix # ""
             THEN IF keys # {}
                  THEN ClearLoop(c, WithDb(w1, url, redis_delete(db, keys)),
                                 Tail(nodes), PyInt(redis_delete_count(db, keys)))
                  ELSE ClearLoop(c, w1, Tail(nodes), status)
             ELSE ClearLoop(c, WithDb(w1, url, redis_flushdb(db)), Tail(nodes),
                            PyBool(TRUE))

clear(c, w) == ClearLoop(c, w, c.nodes, PyBool(FALSE))

-----------------------------------------------------------------------------
(* The callers of one RedisCache instance: a call is made, its outcome is  *)
(* held in last until the caller takes it, and seconds pass between calls. *)

\* key sequences of up to MaxKeysLen keys, repeats allowed
KeySeqs == UNION { [1 .. n -> Keys] : n \in 0 .. MaxKeysLen }

\* mappings as their items(): distinct keys
Mappings ==
    {<<>>}
    \cup { <<<<k, v>>>> : k \in Keys, v \in Values }
    \cup { <<<<"a", v1>>, <<"b", v2>>>> : v1 \in Values, v2 \in Values }

\* the orders in which n groups can be taken
Orders(n) == { o \in [1 .. n -> 1 .. n] : \A i, j \in 1 .. n : o[i] = o[j] => i = j }

\* the hosts the instance is constructed with
HostChoices == { Hosts(<<"redis://n1", "redis://n2">>, FALSE, NoWeights) }

NoClients == [u \in Urls |-> 0]
EmptyStore == [u \in Urls |-> EmptyDb]

Call(verb, keys, items, timeout, raw, delta, ret) ==
    [verb |-> verb, keys |-> keys, items |-> items, timeout |-> timeout,
     raw |-> raw, delta |-> delta, ret |-> ret]

Idle == Call("none", <<>>, <<>>, PyNone, FALSE, 0, PyNone)

\* no set_many with a timeout is on record for the key
NoWatch == [on |-> FALSE, value |-> PyNone, t |-> 0, age |-> 0]
NoHist == [k \in Keys |-> NoWatch]

Now == World(store, clients)

\* a verb has run: the world is its outcome's, and last holds the call
Ran(o, call) ==
    /\ store' = o.w.store
    /\ clients' = o.w.clients
    /\ last' = call
    /\ UNCHANGED <<inst, th, made>>
    /\ UNCHANGED mgrVars

\* any other write to a key ends the record of its set_many
HistAfterWrite(keys) ==
    hist' = [k \in Keys |->
                IF \E j \in 1 .. Len(keys) : keys[j] = k THEN NoWatch ELSE hist[k]]

\* the value the mapping gives key k
MappingIndex(mapping, k) == CHOOSE i \in 1 .. Len(mapping) : mapping[i][1] = k

HistAfterSetMany(mapping, raw, t) ==
    hist' = [k \in Keys |->
                IF \E i \in 1 .. Len(mapping) : mapping[i][1] = k
                THEN IF ~raw /\ t > 0
                     THEN [on |-> TRUE, value |-> mapping[MappingIndex(mapping, k)][2],
                           t |-> t, age |-> 0]
                     ELSE NoWatch
                ELSE hist[k]]

CallExists(k) ==
    /\ last = Idle
    /\ LET o == exists(inst, Now, k)
       IN  Ran(o, Call("exists", <<k>>, <<>>, PyNone, FALSE, 0, o.ret))
    /\ UNCHANGED hist

CallGet(k, raw) ==
    /\ last = Idle
    /\ LET o == get(inst, Now, k, raw)
       IN  Ran(o, Call("get", <<k>>, <<>>, PyNone, raw, 0, o.ret))
    /\ UNCHANGED hist

CallSet(k, v, timeout, raw) ==
    /\ last = Idle
    /\ LET o == set(inst, Now, k, v, timeout, raw)
       IN  Ran(o, Call("set", <<k>>, <<<<k, v>>>>, timeout, raw, 0, o.ret))
    /\ HistAfterWrite(<<k>>)

CallAdd(k, v, timeout) ==
    /\ last = Idle
    /\ LET o == add(inst, Now, k, v, timeout)
       IN  Ran(o, Call("add", <<k>>, <<<<k, v>>>>, timeout, FALSE, 0, o.ret))
    /\ HistAfterWrite(<<k>>)

CallDelete(k) ==
    /\ last = Idle
    /\ LET o == delete(inst, Now, k)
       IN  Ran(o, Call("delete", <<k>>, <<>>, PyNone, FALSE, 0, o.ret))
    /\ HistAfterWrite(<<k>>)

\* the counter the key holds now, 0 when it holds none
Held(k) ==
    LET e == store[key_to_url(inst, get_key(inst, k))][get_key(inst, k)]
    IN  IF IsCounter(e) THEN CounterValue(e) ELSE 0

CallInc(k, delta, timeout) ==
    /\ last = Idle
    /\ Held(k) + delta <= MaxCounter
    /\ LET o == inc(inst, Now, k, delta, timeout)
       IN  Ran(o, Call("inc", <<k>>, <<>>, timeout, FALSE, delta, o.ret))
    /\ HistAfterWrite(<<k>>)

CallDec(k, delta, timeout) ==
    /\ last = Idle
    /\ Held(k) - delta >= 0 - MaxCounter
    /\ LET o == dec(inst, Now, k, delta, timeout)
       IN  Ran(o, Call("dec", <<k>>, <<>>, timeout, FALSE, delta, o.ret))
    /\ HistAfterWrite(<<k>>)

CallGetMany(keys, raw) ==
    /\ last = Idle
    /\ \E order \in Orders(Len(group_by_url(inst, keys, "key"))) :
          LET o == get_many(inst, Now, keys, raw, order)
          IN  Ran(o, Call("get_many", keys, <<>>, PyNone, raw, 0, o.ret))
    /\ UNCHANGED hist

CallSetMany(mapping, raw, timeout) ==
    /\ last = Idle
    /\ LET o == set_many(inst, Now, mapping, raw, timeout)
       IN  Ran(o, Call("set_many", <<>>, mapping, timeout, raw, 0, o.ret))
    /\ HistAfterSetMany(mapping, raw, get_expiration(inst, timeout))

CallDeleteMany(keys) ==
    /\ last = Idle
    /\ LET o == delete_many(inst, Now, keys)
       IN  Ran(o, Call("delete_many", keys, <<>>, PyNone, FALSE, 0, o.ret))
    /\ HistAfterWrite(keys)

CallClear ==
    /\ last = Idle
    /\ LET o == clear(inst, Now)
       IN  Ran(o, Call("clear", <<>>, <<>>, PyNone, FALSE, 0, o.ret))
    /\ UNCHANGED hist

\* the keys other users of the same redis nodes keep there
CoKeys == {"a", "p:a", "p?a"}

\* another user of the nodes writes a key of its own to a node, with or
\* without an expiry
OtherWrite(u, pk, time) ==
    /\ last = Idle
    /\ ~store[u][pk].has
    /\ store' = [store EXCEPT ![u][pk] = Entry(dump_object(PyStr("x")), time)]
    /\ UNCHANGED <<inst, clients, last, hist, th, made>>
    /\ UNCHANGED mgrVars

\* RedisCache.reset: it walks the clients and drops none of them; "del r"
\* unbinds the loop's local name only
redis_reset(cl) == cl

CallReset ==
    /\ last = Idle
    /\ clients' = redis_reset(clients)
    /\ last' = Call("reset", <<>>, <<>>, PyNone, FALSE, 0, PyNone)
    /\ UNCHANGED <<store, inst, hist, th, made>>
    /\ UNCHANGED mgrVars

\* the caller takes the outcome
Return ==
    /\ last # Idle
    /\ last' = Idle
    /\ UNCHANGED <<store, inst, clients, hist, th, made>>
    /\ UNCHANGED mgrVars

\* a second passes
Tick ==
    /\ last = Idle
    /\ store' = SecondPasses(store)
    /\ hist' = [k \in Keys |->
                  IF hist[k].on /\ hist[k].age < hist[k].t
                  THEN [hist[k] EXCEPT !.age = @ + 1] ELSE hist[k]]
    /\ store' # store \/ hist' # hist
    /\ UNCHANGED <<inst, clients, last, th, made>>
    /\ UNCHANGED mgrVars

-----------------------------------------------------------------------------
(* NullCache (werkzeug.contrib.cache, the API of redis_cache.py:15): every *)
(* verb is BaseCache's default, which stores nothing.                      *)

NullCache == [kind |-> "null", key_prefix |-> "", default_timeout |-> 0,
              nodes |-> <<>>, ring |-> {}]

\* the absence of an instance
NoInstance == [kind |-> "none", key_prefix |-> "", default_timeout |-> 0,
               nodes |-> <<>>, ring |-> {}]

null_verb(verb, keys, delta) ==
    CASE verb = "get" -> PyNone
      [] verb = "get_many" -> PyList([i \in 1 .. Len(keys) |-> PyNone])
      [] verb \in {"set", "add", "delete", "set_many", "delete_many", "clear"} ->
            PyBool(TRUE)
      [] verb = "inc" -> PyInt(delta)
      [] verb = "dec" -> PyInt(0 - delta)
      [] OTHER -> Raised("AttributeError")

-----------------------------------------------------------------------------
(* QKCache: configuration.                                                 *)

Names == {"default", "other"}
Threads == {1, 2}
Scopes == {1, 2}

\* a value of CACHE_NODES[name]: a (backend, nodes) pair, a bare backend
\* string, or a flat list of one url as in QKCache.__init__
NoHosts == Hosts(<<>>, FALSE, NoWeights)
CfgPair(backend, hosts) == [shape |-> "pair", backend |-> backend, hosts |-> hosts]
CfgBare(backend) == [shape |-> "str", backend |-> backend, hosts |-> NoHosts]
CfgList1 == [shape |-> "list1", backend |-> "redis://127.0.0.1", hosts |-> NoHosts]
Missing == [shape |-> "missing", backend |-> "", hosts |-> NoHosts]

TwoNodes == Hosts(<<"redis://n1", "redis://n2">>, FALSE, NoWeights)

CfgChoices ==
    { CfgPair("redis", TwoNodes), CfgBare("redis"), CfgBare("null"),
      CfgBare("Redis"), CfgBare("memcached"), CfgBare("bogus"), CfgList1 }

\* the CACHE_NODES maps configure() is called with
NodeMaps ==
    { [n \in Names |-> IF n = "default" THEN c ELSE Missing] : c \in CfgChoices }

\* QKCache.__init__
InitConfig ==
    [CACHE_ENABLED |-> FALSE,
     CACHE_KEY_PREFIX |-> DefaultPrefix,
     CACHE_DEFAULT_TIMEOUT |-> 300,
     CACHE_NODES |-> [n \in Names |-> IF n = "default" THEN CfgList1 ELSE Missing]]

\* str.lower, on the backend names of the model
lower(s) ==
    CASE s = "Redis" -> "redis"
      [] OTHER -> s

\* a _check_backend that lets every backend through
accepts_any(backend) == FALSE

\* _check_backend: true when it raises
check_backend_raises(backend) == lower(backend) \notin {"redis", "null"}

\* a build that falls back to a NullCache where get_cache raises
BuildLenient(cfg, name) ==
    LET c == cfg.CACHE_NODES[name] IN
    IF c.shape = "pair" /\ c.backend = "redis" /\ c.hosts.nodes # <<>>
    THEN [raise |-> "",
          inst |-> RedisCache(c.hosts, cfg.CACHE_KEY_PREFIX,
                              cfg.CACHE_DEFAULT_TIMEOUT)]
    ELSE [raise |-> "", inst |-> NullCache]

\* get_cache, lines 81-106: what a build gives with caching enabled, an
\* instance or the exception raised
BuildEnabled(cfg, name) ==
    LET c == cfg.CACHE_NODES[name] IN
    IF c.shape = "missing" THEN [raise |-> "KeyError", inst |-> NullCache]
    ELSE IF c.shape = "list1" THEN [raise |-> "IndexError", inst |-> NullCache]
    ELSE IF check_backend_raises(c.backend)
         THEN [raise |-> "NotImplementedError", inst |-> NullCache]
    ELSE IF c.backend = "redis"
         THEN IF c.hosts.nodes = <<>>
              THEN [raise |-> "IndexError", inst |-> NullCache]
              ELSE [raise |-> "",
                    inst |-> RedisCache(c.hosts, cfg.CACHE_KEY_PREFIX,
                                        cfg.CACHE_DEFAULT_TIMEOUT)]
    ELSE IF c.backend = "memcached"
         THEN [raise |-> "NotImplementedError", inst |-> NullCache]
    ELSE [raise |-> "", inst |-> NullCache]

\* a build that does not read CACHE_ENABLED
BuildRegardless(cfg, name) == BuildEnabled(cfg, name)

\* get_cache, lines 75-106: with caching disabled a NullCache, whatever
\* CACHE_NODES says
NewInstance(cfg, name) ==
    IF ~cfg.CACHE_ENABLED THEN [raise |-> "", inst |-> NullCache]
    ELSE BuildEnabled(cfg, name)

\* the names __getattr__ delegates
Delegated ==
    {"add", "set", "get", "delete", "set_many", "get_many", "delete_many",
     "inc", "dec", "clear"}

\* the attribute names callers ask the manager for
AttrNames == Delegated \cup {"exists", "flush"}

-----------------------------------------------------------------------------
(* QKCache: the instance maps.  A map is named by 0 (QKCache._instances)   *)
(* or by a scope key (the registry's map for that scope).                  *)

Refs == {0} \cup Scopes

\* an object the manager holds: the instance, its clients map, and its
\* identity: the map, name, reset count and serial it was constructed under
Object(i, cl, id) == [inst |-> i, clients |-> cl, id |-> id]
NoObject == Object(NoInstance, NoClients, <<0, "", 0, 0>>)
NoInstances == [n \in Names |-> NoObject]

\* ScopedRegistry / ThreadLocalRegistry (utils/_collections.py): calling the
\* registry gives the map kept for the current scope key, made empty on the
\* scope's first call
registry_call(scope) == scope

\* a get_instances that scoped_cache left in place
SharedInstances(scope) == 0

\* get_instances: self._instances, or after scoped_cache the registry's map
get_instances(scope) == IF scoped THEN registry_call(scope) ELSE 0

Map(ref) == IF ref = 0 THEN instances ELSE registry[ref]

\* the map named by ref, changed to m
SetMap(ref, m) ==
    /\ instances' = IF ref = 0 THEN m ELSE instances
    /\ registry' = IF ref = 0 THEN registry ELSE [registry EXCEPT ![ref] = m]

\* a manager that takes no lock
NoLock == TRUE

\* with self._instances_lock: the lock can be taken
LockFree == lock = 0

\* a call's locals: key is the scope key the call ran under (0 when the
\* manager has no scopes), ref the map get_instances() gave it, epoch how
\* often that map had been cleared by then
Locals(op, name, verb) ==
    [op |-> op, name |-> name, verb |-> verb, key |-> 0, ref |-> 0,
     epoch |-> 0, ret |-> NoObject, exc |-> "", out |-> PyNone]

NoLocals == Locals("", "", "")

\* a thread calls configure(): the given keys of the configuration are
\* replaced
Configure(t, keys, enabled, nodes) ==
    /\ pc[t] = "idle"
    /\ config' = [config EXCEPT
            !.CACHE_ENABLED = IF "CACHE_ENABLED" \in keys THEN enabled ELSE @,
            !.CACHE_NODES = IF "CACHE_NODES" \in keys THEN nodes ELSE @]
    /\ config' # config
    /\ UNCHANGED <<instances, registry, scoped, built, lock, resets, pc, tv>>
    /\ UNCHANGED cacheVars

\* scoped_cache(cache, scopefunc): get_instances now asks a new registry
ScopedCache ==
    /\ ~scoped
    /\ scoped' = TRUE
    /\ registry' = [s \in Scopes |-> NoInstances]
    /\ UNCHANGED <<config, instances, built, lock, resets, pc, tv>>
    /\ UNCHANGED cacheVars

\* a thread calls get_cache(name)
BeginGetCache(t, name) ==
    /\ pc[t] = "idle"
    /\ pc' = [pc EXCEPT ![t] = "acquire"]
    /\ tv' = [tv EXCEPT ![t] = Locals("get_cache", name, "")]
    /\ UNCHANGED <<config, instances, registry, scoped, built, lock, resets>>
    /\ UNCHANGED cacheVars

\* a thread reads attribute verb of the manager: __getattr__ raises for a
\* name it does not know, and else goes on to get_cache()
BeginGetAttr(t, verb) ==
    /\ pc[t] = "idle"
    /\ IF verb \notin Delegated
       THEN /\ pc' = [pc EXCEPT ![t] = "done"]
            /\ tv' = [tv EXCEPT ![t] =
                        [Locals("getattr", "", verb) EXCEPT !.exc = "RuntimeError"]]
       ELSE /\ pc' = [pc EXCEPT ![t] = "acquire"]
            /\ tv' = [tv EXCEPT ![t] = Locals("getattr", "default", verb)]
    /\ UNCHANGED <<config, instances, registry, scoped, built, lock, resets>>
    /\ UNCHANGED cacheVars

\* get_cache, line 68
Acquire(t) ==
    /\ pc[t] = "acquire"
    /\ LockFree
    /\ lock' = t
    /\ pc' = [pc EXCEPT ![t] = "lookup"]
    /\ UNCHANGED <<config, instances, registry, scoped, built, resets, tv>>
    /\ UNCHANGED cacheVars

\* get_cache, lines 70-73; scope is the scope key current at this call
Lookup(t, scope) ==
    /\ pc[t] = "lookup"
    /\ LET ref == get_instances(scope)
           seen == [tv[t] EXCEPT !.ref = ref, !.epoch = resets[ref],
                                 !.key = IF scoped THEN scope ELSE 0]
       IN  IF Map(ref)[tv[t].name] # NoObject
           THEN /\ tv' = [tv EXCEPT ![t] = [seen EXCEPT !.ret = Map(ref)[tv[t].name]]]
                /\ pc' = [pc EXCEPT ![t] = "done"]
                /\ lock' = 0
           ELSE /\ tv' = [tv EXCEPT ![t] = seen]
                /\ pc' = [pc EXCEPT ![t] = "build"]
                /\ lock' = lock
    /\ UNCHANGED <<config, instances, registry, scoped, built, resets>>
    /\ UNCHANGED cacheVars

\* get_cache, lines 75-109
Build(t) ==
    /\ pc[t] = "build"
    /\ LET new == NewInstance(config, tv[t].name)
           ref == tv[t].ref
           name == tv[t].name
           obj == Object(new.inst, NoClients,
                         <<ref, name, tv[t].epoch, built[ref][name] + 1>>)
       IN  IF new.raise # ""
           THEN /\ tv' = [tv EXCEPT ![t].exc = new.raise]
                /\ UNCHANGED <<instances, registry, built>>
           ELSE /\ built[ref][name] < MaxInst
                /\ built' = [built EXCEPT ![ref][name] = @ + 1]
                /\ SetMap(ref, [Map(ref) EXCEPT ![name] = obj])
                /\ tv' = [tv EXCEPT ![t].ret = obj]
    /\ pc' = [pc EXCEPT ![t] = "done"]
    /\ lock' = 0
    /\ UNCHANGED <<config, scoped, resets>>
    /\ UNCHANGED cacheVars

\* the arguments the callers of the manager pass to a verb
InvokeArgs ==
    { [key |-> "a", value |-> PyInt(1), keys |-> <<"a", "b">>,
       mapping |-> <<<<"b", PyStr("x")>>>>, delta |-> 1, timeout |-> PyNone] }

\* the verbs callers invoke on an instance
InstanceVerbs ==
    {"exists", "get", "set", "add", "delete", "get_many", "set_many",
     "delete_many", "inc", "dec", "clear"}

\* the keys a call names
ArgKeys(verb, a) ==
    CASE verb \in {"get_many", "delete_many"} -> a.keys
      [] verb = "set_many" -> [i \in 1 .. Len(a.mapping) |-> a.mapping[i][1]]
      [] OTHER -> <<a.key>>

\* getattr(instance, verb)(...) on a RedisCache
redis_verb(c, w, verb, a) ==
    CASE verb = "exists" -> exists(c, w, a.key)
      [] verb = "get" -> get(c, w, a.key, FALSE)
      [] verb = "set" -> set(c, w, a.key, a.value, a.timeout, FALSE)
      [] verb = "add" -> add(c, w, a.key, a.value, a.timeout)
      [] verb = "delete" -> delete(c, w, a.key)
      [] verb = "get_many" ->
            get_many(c, w, a.keys, FALSE,
                     [i \in 1 .. Len(group_by_url(c, a.keys, "key")) |-> i])
      [] verb = "set_many" -> set_many(c, w, a.mapping, FALSE, a.timeout)
      [] verb = "delete_many" -> delete_many(c, w, a.keys)
      [] verb = "inc" -> inc(c, w, a.key, a.delta, a.timeout)
      [] verb = "dec" -> dec(c, w, a.key, a.delta, a.timeout)
      [] verb = "clear" -> clear(c, w)

\* the object wherever the manager holds it, with its clients map changed
WithClients(m, id, cl) ==
    [n \in Names |-> IF m[n].id = id THEN [m[n] EXCEPT !.clients = cl] ELSE m[n]]

\* the caller invokes a verb of the instance it was given; through the
\* manager it is the verb whose name it asked for
Invoke(t, verb, a) ==
    /\ pc[t] = "done"
    /\ tv[t].op \in {"get_cache", "getattr"}
    /\ tv[t].ret # NoObject
    /\ tv[t].op = "getattr" => verb = tv[t].verb
    /\ LET b == tv[t].ret IN
       IF b.inst.kind = "null"
       THEN /\ tv' = [tv EXCEPT ![t].verb = verb,
                        ![t].out = null_verb(verb, ArgKeys(verb, a), a.delta)]
            /\ UNCHANGED <<store, instances, registry>>
       ELSE LET o == redis_verb(b.inst, World(store, b.clients), verb, a) IN
            /\ o.ret.t = "int" =>
                  (o.ret.n <= MaxCounter /\ o.ret.n >= 0 - MaxCounter)
            /\ tv' = [tv EXCEPT ![t].verb = verb, ![t].out = o.ret,
                                ![t].ret.clients = o.w.clients]
            /\ store' = o.w.store
            /\ instances' = WithClients(instances, b.id, o.w.clients)
            /\ registry' = [s \in Scopes |-> WithClients(registry[s], b.id, o.w.clients)]
    /\ pc' = [pc EXCEPT ![t] = "invoked"]
    /\ UNCHANGED <<inst, clients, last, hist, th, made>>
    /\ UNCHANGED <<config, scoped, built, lock, resets>>

\* the caller is done with what it was given
Finish(t) ==
    /\ pc[t] \in {"done", "invoked"}
    /\ pc' = [pc EXCEPT ![t] = "idle"]
    /\ tv' = [tv EXCEPT ![t] = NoLocals]
    /\ UNCHANGED <<config, instances, registry, scoped, built, lock, resets>>
    /\ UNCHANGED cacheVars

\* how many times reset() has cleared a map
TotalResets == resets[0] + resets[1] + resets[2]

\* QKCache.reset: under the lock, reset() on every instance of the map, then
\* the map is cleared; a NullCache has no reset() and the call raises there
Reset(t, scope) ==
    /\ pc[t] = "idle"
    /\ LockFree
    /\ LET ref == get_instances(scope)
           m == Map(ref)
       IN  IF \E n \in Names : m[n].inst.kind = "null"
           THEN /\ tv' = [tv EXCEPT ![t] =
                            [Locals("reset", "", "") EXCEPT
                                !.key = IF scoped THEN scope ELSE 0,
                                !.ref = ref, !.exc = "AttributeError"]]
                /\ UNCHANGED <<instances, registry, built, resets>>
           ELSE /\ TotalResets < MaxResets
                /\ SetMap(ref, NoInstances)
                /\ resets' = [resets EXCEPT ![ref] = @ + 1]
                /\ built' = [built EXCEPT ![ref] = [n \in Names |-> 0]]
                /\ tv' = [tv EXCEPT ![t] =
                            [Locals("reset", "", "") EXCEPT
                                !.key = IF scoped THEN scope ELSE 0, !.ref = ref]]
    /\ pc' = [pc EXCEPT ![t] = "done"]
    /\ UNCHANGED <<config, scoped, lock>>
    /\ UNCHANGED cacheVars

-----------------------------------------------------------------------------
(* Threads inside one RedisCache: _get_connection and add, one statement   *)
(* or redis command at a time.                                             *)

\* a thread's locals: url and r are _get_connection's, key, value and time
\* are add's, ret is what the method returned
NoThread ==
    [pc |-> "idle", url |-> "", r |-> 0, key |-> "", value |-> PyNone,
     time |-> 0, ret |-> PyNone]

\* the handles created so far
TotalMade == made["redis://n1"] + made["redis://n2"]

\* a thread calls _get_connection(url)
ConnBegin(t, url) ==
    /\ th[t].pc = "idle"
    /\ th' = [th EXCEPT ![t] = [NoThread EXCEPT !.pc = "check", !.url = url]]
    /\ UNCHANGED <<store, inst, clients, last, hist, made>>
    /\ UNCHANGED mgrVars

\* line 86: if url not in self.clients
ConnCheck(t) ==
    /\ th[t].pc = "check"
    /\ th' = [th EXCEPT ![t].pc = IF clients[th[t].url] = 0 THEN "create"
                                  ELSE "fetch"]
    /\ UNCHANGED <<store, inst, clients, last, hist, made>>
    /\ UNCHANGED mgrVars

\* line 87: r = redis.StrictRedis.from_url(url), a new handle
ConnCreate(t) ==
    /\ th[t].pc = "create"
    /\ th' = [th EXCEPT ![t].pc = "store", ![t].r = TotalMade + 1]
    /\ made' = [made EXCEPT ![th[t].url] = @ + 1]
    /\ UNCHANGED <<store, inst, clients, last, hist>>
    /\ UNCHANGED mgrVars

\* line 88: self.clients[url] = r
ConnStore(t) ==
    /\ th[t].pc = "store"
    /\ clients' = [clients EXCEPT ![th[t].url] = th[t].r]
    /\ th' = [th EXCEPT ![t].pc = "fetch"]
    /\ UNCHANGED <<store, inst, last, hist, made>>
    /\ UNCHANGED mgrVars

\* line 89: return self.clients.get(url)
ConnFetch(t) ==
    /\ th[t].pc = "fetch"
    /\ th' = [th EXCEPT ![t].pc = "done", ![t].ret = PyInt(clients[th[t].url])]
    /\ UNCHANGED <<store, inst, clients, last, hist, made>>
    /\ UNCHANGED mgrVars

\* a thread calls add(key, value, timeout): lines 159-163, the expiry, the
\* dump, the prefixed key and the connection of its node
AddBegin(t, key, value, timeout) ==
    /\ th[t].pc = "idle"
    /\ LET k == get_key(inst, key)
           w1 == get_connection(Now, key_to_url(inst, k))
       IN  /\ clients' = w1.clients
           /\ th' = [th EXCEPT ![t] =
                        [NoThread EXCEPT !.pc = "setnx", !.key = k, !.value = value,
                                         !.url = key_to_url(inst, k),
                                         !.time = get_expiration(inst, timeout)]]
    /\ UNCHANGED <<store, inst, last, hist, made>>
    /\ UNCHANGED mgrVars

\* line 166: client.setnx(name=k, value=dump); a false result ends the
\* "and" and is returned
AddSetnx(t) ==
    /\ th[t].pc = "setnx"
    /\ LET db == store[th[t].url]
           ok == redis_setnx_ok(db, th[t].key)
       IN  /\ store' = [store EXCEPT ![th[t].url] =
                            redis_setnx(db, th[t].key, dump_object(th[t].value))]
           /\ th' = [th EXCEPT ![t] =
                        IF ok THEN [@ EXCEPT !.pc = "expire"]
                        ELSE [@ EXCEPT !.pc = "done", !.ret = PyBool(FALSE)]]
    /\ UNCHANGED <<inst, clients, last, hist, made>>
    /\ UNCHANGED mgrVars

\* line 167: client.expire(name=k, time=timeout), whose result is returned
AddExpire(t) ==
    /\ th[t].pc = "expire"
    /\ LET db == store[th[t].url]
       IN  /\ store' = [store EXCEPT ![th[t].url] =
                            redis_expire(db, th[t].key, th[t].time)]
           /\ th' = [th EXCEPT ![t].pc = "done",
                               ![t].ret = PyBool(redis_expire_ok(db, th[t].key))]
    /\ UNCHANGED <<inst, clients, last, hist, made>>
    /\ UNCHANGED mgrVars

-----------------------------------------------------------------------------
(* The specifications.                                                     *)

\* a new RedisCache over empty nodes; nobody has called it yet
CacheInit ==
    /\ store = EmptyStore
    /\ clients = NoClients
    /\ last = Idle
    /\ hist = NoHist
    /\ th = [t \in Threads |-> NoThread]
    /\ made = [u \in Urls |-> 0]

KeyInit ==
    /\ CacheInit
    /\ inst \in { RedisCache(h, p, d) :
                    h \in HostChoices, p \in Prefixes, d \in DefaultTimeouts }

BatchInit ==
    /\ CacheInit
    /\ inst \in { RedisCache(h, p, MaxTimeout) : h \in HostChoices, p \in Prefixes }

\* a new QKCache
MgrInit ==
    /\ config = InitConfig
    /\ instances = NoInstances
    /\ registry = [s \in Scopes |-> NoInstances]
    /\ scoped = FALSE
    /\ built = [r \in Refs |-> [n \in Names |-> 0]]
    /\ lock = 0
    /\ resets = [r \in Refs |-> 0]
    /\ pc = [t \in Threads |-> "idle"]
    /\ tv = [t \in Threads |-> NoLocals]

\* the single-key verbs of one RedisCache
KeyNext ==
    \/ \E k \in Keys : CallExists(k)
    \/ \E k \in Keys, raw \in BOOLEAN : CallGet(k, raw)
    \/ \E k \in Keys, v \in Values, timeout \in Timeouts, raw \in BOOLEAN :
          CallSet(k, v, timeout, raw)
    \/ \E k \in Keys, v \in Values, timeout \in Timeouts : CallAdd(k, v, timeout)
    \/ \E k \in Keys : CallDelete(k)
    \/ \E k \in Keys, delta \in Deltas, timeout \in Timeouts : CallInc(k, delta, timeout)
    \/ \E k \in Keys, delta \in Deltas, timeout \in Timeouts : CallDec(k, delta, timeout)
    \/ CallReset
    \/ Return
    \/ Tick

\* one RedisCache and its callers; no manager is in play
InitKey == KeyInit /\ MgrInit

SpecKey == InitKey /\ [][KeyNext]_vars

\* the batch verbs of one RedisCache
BatchNext ==
    \/ \E keys \in KeySeqs, raw \in BOOLEAN : CallGetMany(keys, raw)
    \/ \E mapping \in Mappings, raw \in BOOLEAN, timeout \in Timeouts :
          CallSetMany(mapping, raw, timeout)
    \/ \E keys \in KeySeqs : CallDeleteMany(keys)
    \/ Return
    \/ Tick

InitBatch == BatchInit /\ MgrInit

SpecBatch == InitBatch /\ [][BatchNext]_vars

\* the single-key and the batch verbs on one RedisCache, in any order, all
\* through the codec (raw is false)
RouteNext ==
    \/ \E k \in Keys : CallGet(k, FALSE)
    \/ \E k \in Keys, v \in Values, timeout \in Timeouts :
          CallSet(k, v, timeout, FALSE)
    \/ \E k \in Keys, v \in Values, timeout \in Timeouts : CallAdd(k, v, timeout)
    \/ \E k \in Keys : CallDelete(k)
    \/ \E k \in Keys, timeout \in Timeouts : CallInc(k, 1, timeout)
    \/ \E k \in Keys, timeout \in Timeouts : CallDec(k, 1, timeout)
    \/ \E keys \in KeySeqs : CallGetMany(keys, FALSE)
    \/ \E mapping \in Mappings, timeout \in Timeouts :
          CallSetMany(mapping, FALSE, timeout)
    \/ \E keys \in KeySeqs : CallDeleteMany(keys)
    \/ Return
    \/ Tick

SpecRoute == InitBatch /\ [][RouteNext]_vars

\* clear() on nodes that hold the instance's keys and other users' keys
ClearInit ==
    /\ CacheInit
    /\ inst \in { RedisCache(h, p, MaxTimeout) :
                    h \in HostChoices, p \in Prefixes \cup {GlobPrefix} }

ClearNext ==
    \/ \E k \in Keys : CallSet(k, PyStr("x"), PyNone, FALSE)
    \/ \E u \in Urls, pk \in CoKeys, time \in {0, MaxTimeout} : OtherWrite(u, pk, time)
    \/ CallClear
    \/ Return

InitClear == ClearInit /\ MgrInit

SpecClear == InitClear /\ [][ClearNext]_vars

\* threads looking up connections of one RedisCache concurrently; a thread
\* makes one lookup
ConnNext ==
    \/ \E t \in Threads, url \in Urls : ConnBegin(t, url)
    \/ \E t \in Threads : ConnCheck(t)
    \/ \E t \in Threads : ConnCreate(t)
    \/ \E t \in Threads : ConnStore(t)
    \/ \E t \in Threads : ConnFetch(t)

SpecConn == InitBatch /\ [][ConnNext]_vars

\* threads calling add on one RedisCache concurrently; a thread makes one
\* call, and no time passes while the calls run
AddNext ==
    \/ \E t \in Threads, k \in Keys, v \in Values, timeout \in Timeouts :
          AddBegin(t, k, v, timeout)
    \/ \E t \in Threads : AddSetnx(t)
    \/ \E t \in Threads : AddExpire(t)

SpecAdd == InitBatch /\ [][AddNext]_vars

\* the manager and its callers
MgrCacheInit ==
    /\ CacheInit
    /\ inst = NullCache

\* the CACHE_NODES maps the concurrent callers' manager is configured with
FewNodeMaps == { [n \in Names |-> CfgPair("redis", TwoNodes)] }

\* the name the concurrent callers contend for
SharedNames == {"default"}

ConfigKeys == (SUBSET {"CACHE_ENABLED", "CACHE_NODES"}) \ {{}}

\* threads calling get_cache and reset concurrently, with and without scopes
Next ==
    \/ \E t \in Threads, keys \in ConfigKeys, enabled \in BOOLEAN,
            nodes \in FewNodeMaps : Configure(t, keys, enabled, nodes)
    \/ ScopedCache
    \/ \E t \in Threads, name \in SharedNames : BeginGetCache(t, name)
    \/ \E t \in Threads : Acquire(t)
    \/ \E t \in Threads, scope \in Scopes : Lookup(t, scope)
    \/ \E t \in Threads : Build(t)
    \/ \E t \in Threads : Finish(t)
    \/ \E t \in Threads, scope \in Scopes : Reset(t, scope)

\* a new manager; the cache of the direct callers stays unused
Init == MgrCacheInit /\ MgrInit

Spec == Init /\ [][Next]_vars

\* one caller using the manager's verbs and the instances it gives out,
\* under every configuration
VerbNext ==
    \/ \E keys \in ConfigKeys, enabled \in BOOLEAN, nodes \in NodeMaps :
          Configure(1, keys, enabled, nodes)
    \/ \E name \in Names : BeginGetCache(1, name)
    \/ \E verb \in AttrNames : BeginGetAttr(1, verb)
    \/ Acquire(1)
    \/ Lookup(1, 1)
    \/ Build(1)
    \/ \E verb \in InstanceVerbs, a \in InvokeArgs : Invoke(1, verb, a)
    \/ Finish(1)
    \/ Reset(1, 1)

SpecVerb == Init /\ [][VerbNext]_vars

-----------------------------------------------------------------------------
(* Properties of the manager under concurrent callers (Spec).              *)

\* thread t holds the instance a get_cache call returned to it
Returned(t) ==
    /\ pc[t] = "done"
    /\ tv[t].op = "get_cache"
    /\ tv[t].ret # NoObject

\* C1: build-once.  For one map (one scope) and one name, with no reset in
\* between, at most one instance is constructed, every get_cache call is
\* given the instance the map holds, and any two calls are given the
\* identical instance, whatever configure() did after the build.
C1_BuildOnce ==
    /\ \A r \in Refs, n \in Names : built[r][n] <= 1
    /\ \A t \in Threads :
          (Returned(t) /\ tv[t].epoch = resets[tv[t].ref]) =>
              tv[t].ret.id = Map(tv[t].ref)[tv[t].name].id
    /\ \A t1, t2 \in Threads :
          (/\ Returned(t1) /\ Returned(t2)
           /\ tv[t1].name = tv[t2].name
           /\ tv[t1].key = tv[t2].key
           /\ tv[t1].epoch = tv[t2].epoch) =>
              tv[t1].ret.id = tv[t2].ret.id

\* two threads hold the same instance of one name, a NullCache built while
\* caching was disabled, although configure() has enabled caching since
C1_Witness ==
    \E t1, t2 \in Threads :
        /\ t1 # t2
        /\ Returned(t1) /\ Returned(t2)
        /\ tv[t1].name = tv[t2].name
        /\ tv[t1].key = tv[t2].key
        /\ tv[t1].epoch = tv[t2].epoch
        /\ tv[t1].ret.id = tv[t2].ret.id
        /\ tv[t1].ret.inst.kind = "null"
        /\ config.CACHE_ENABLED

\* C2: scope isolation.  Once scoped_cache is applied, get_cache calls made
\* under two distinct scope keys are never given the same instance, and no
\* instance is held by the maps of two scope keys.
C2_ScopeIsolation ==
    /\ \A t1, t2 \in Threads :
          (/\ Returned(t1) /\ Returned(t2)
           /\ tv[t1].key # 0 /\ tv[t2].key # 0
           /\ tv[t1].key # tv[t2].key
           /\ tv[t1].name = tv[t2].name) =>
              tv[t1].ret.id # tv[t2].ret.id
    /\ \A s1, s2 \in Scopes, n \in Names :
          (s1 # s2 /\ registry[s1][n] # NoObject) =>
              registry[s1][n].id # registry[s2][n].id

\* two threads under two scope keys each hold an instance of the same name
C2_Witness ==
    \E t1, t2 \in Threads :
        /\ Returned(t1) /\ Returned(t2)
        /\ tv[t1].key # 0 /\ tv[t2].key # 0
        /\ tv[t1].key # tv[t2].key
        /\ tv[t1].name = tv[t2].name
        /\ scoped

-----------------------------------------------------------------------------
(* Properties of the batch verbs of one RedisCache (SpecBatch).            *)

\* what the node the ring assigns to prefix + k holds for it, as get_many
\* hands it out: the bytes when raw, else the bytes decoded; None when the
\* key is missing
StoredFor(k, raw) ==
    LET pk == inst.key_prefix \o k
        got == redis_get(store[get_node(inst.ring, pk)], pk)
    IN  IF raw THEN got ELSE load_object(got)

\* C3: get_many order restoration.  A get_many of k1..kn returns a list of
\* exactly n results whose i-th element is what ki's ring-assigned node
\* holds for ki, None when ki is missing, in whatever order the per-node
\* groups were processed.
C3_GetManyOrder ==
    (last.verb = "get_many" /\ ~IsRaised(last.ret)) =>
        /\ last.ret.t = "list"
        /\ Len(last.ret.items) = Len(last.keys)
        /\ \A i \in 1 .. Len(last.keys) :
              last.ret.items[i] = StoredFor(last.keys[i], last.raw)

\* a get_many of a, b, a, whose keys alternate between two nodes and repeat,
\* with a present and b missing
C3_Witness ==
    /\ last.verb = "get_many"
    /\ last.keys = <<"a", "b", "a">>
    /\ get_node(inst.ring, inst.key_prefix \o "a") #
          get_node(inst.ring, inst.key_prefix \o "b")
    /\ last.ret.t = "list"
    /\ last.ret.items[1] # PyNone
    /\ last.ret.items[2] = PyNone

\* a value as the codec gives it back: itself, but the integer for a string
\* that is the text of one
ReadBack(v) == load_object(dump_object(v))

\* what a get_many owes for position i when a set_many with a positive
\* timeout is on record for the key: the written value, as the codec reads
\* it back or as it was written, until the timeout has elapsed, and None
\* from then on
OwedAt(i, decoded) ==
    LET h == hist[last.keys[i]] IN
    h.on => IF h.age < h.t
            THEN last.ret.items[i] = IF decoded THEN ReadBack(h.value) ELSE h.value
            ELSE last.ret.items[i] = PyNone

\* C4 as amended: set_many with a positive timeout t returns true; a
\* get_many of its keys before t elapses returns, in key order, each written
\* value as the codec reads it back (the value itself for integers and for
\* strings that are not the text of an integer, the integer for strings that
\* are); a get_many after t has elapsed returns None for each of the keys,
\* whichever nodes they were routed to.
C4_SetManyTimeout ==
    /\ last.verb = "set_many" => last.ret = PyBool(TRUE)
    /\ (last.verb = "get_many" /\ ~last.raw) =>
          /\ last.ret.t = "list"
          /\ \A i \in 1 .. Len(last.keys) : OwedAt(i, TRUE)

\* a get_many of two keys on two nodes, made after the timeout of the
\* set_many that wrote them has elapsed, returns None for both
C4_Witness ==
    /\ last.verb = "get_many"
    /\ ~last.raw
    /\ last.keys = <<"a", "b">>
    /\ get_node(inst.ring, inst.key_prefix \o "a") #
          get_node(inst.ring, inst.key_prefix \o "b")
    /\ \A k \in Keys : hist[k].on /\ hist[k].age = hist[k].t
    /\ last.ret = PyList(<<PyNone, PyNone>>)

\* C4 as the spec states it: before t elapses get_many returns the written
\* values themselves
C4_AsStated ==
    /\ last.verb = "set_many" => last.ret = PyBool(TRUE)
    /\ (last.verb = "get_many" /\ ~last.raw) =>
          /\ last.ret.t = "list"
          /\ \A i \in 1 .. Len(last.keys) : OwedAt(i, FALSE)

\* the groups _group_by_url made for the batch call last holds
LastGroups ==
    IF last.verb = "get_many" THEN group_by_url(inst, last.keys, "key")
    ELSE group_by_url(inst, last.items, IF last.raw THEN "rawitem" ELSE "item")

\* the logical keys of the items the call was given, by position from 0
LastKey(p) ==
    IF last.verb = "get_many" THEN last.keys[p + 1] ELSE last.items[p + 1][1]

LastLen == IF last.verb = "get_many" THEN Len(last.keys) ELSE Len(last.items)

\* C5: node grouping.  _group_by_url places every item, with its original
\* position, in exactly one group: the group keyed by the node the ring
\* assigns to the item's prefixed key.  Every position 0..n-1 appears exactly
\* once across the groups, and no group is empty.
C5_NodeGrouping ==
    last.verb \in {"get_many", "set_many"} =>
        LET d == LastGroups
            places(p) == { <<j, i>> \in (1 .. Len(d)) \X (1 .. LastLen) :
                              i <= Len(d[j].items) /\ d[j].items[i][1] = p }
        IN  /\ \A j \in 1 .. Len(d) : d[j].items # <<>>
            /\ \A j1, j2 \in 1 .. Len(d) : d[j1].url = d[j2].url => j1 = j2
            /\ \A j \in 1 .. Len(d) : \A i \in 1 .. Len(d[j].items) :
                  d[j].items[i][1] \in 0 .. (LastLen - 1)
            /\ \A p \in 0 .. (LastLen - 1) :
                  /\ Cardinality(places(p)) = 1
                  /\ \A x \in places(p) :
                        /\ d[x[1]].url =
                              get_node(inst.ring, inst.key_prefix \o LastKey(p))
                        /\ d[x[1]].items[x[2]][2][1] = inst.key_prefix \o LastKey(p)

\* a set_many of two items under a prefix, grouped to the one node both
\* prefixed keys belong to, where the bare keys belong to two
C5_Witness ==
    /\ last.verb = "set_many"
    /\ Len(last.items) = 2
    /\ inst.key_prefix # ""
    /\ Len(LastGroups) = 1
    /\ Len(LastGroups[1].items) = 2
    /\ get_node(inst.ring, "a") # get_node(inst.ring, "b")

-----------------------------------------------------------------------------
(* Properties of the manager's verbs and of disabled caching (SpecVerb).   *)

\* what a verb of a no-op instance owes when thread t has invoked it: no
\* node has changed, get gave None, and get_many gave a list with None for
\* each of its keys
NoOpStep(t) ==
    /\ store' = store
    /\ tv'[t].verb = "get" => tv'[t].out = PyNone
    /\ tv'[t].verb = "get_many" =>
          /\ tv'[t].out.t = "list"
          /\ Len(tv'[t].out.items) = 2
          /\ \A i \in 1 .. Len(tv'[t].out.items) : tv'[t].out.items[i] = PyNone

\* thread t's get_cache call builds an instance in this step
Builds(t) == pc[t] = "build" /\ pc'[t] = "done"

\* thread t's get_cache call returns in this step
Returns(t) == pc[t] \in {"lookup", "build"} /\ pc'[t] = "done"

\* thread t invokes a verb of the instance it holds in this step
Invokes(t) == pc[t] = "done" /\ pc'[t] = "invoked"

PublicVerbs ==
    {"exists", "get", "set", "add", "delete", "get_many", "set_many",
     "delete_many", "inc", "dec", "clear"}

\* C10: manager verb delegation.  Reading a name of the public verb set on
\* the manager forwards to the verb of that name of the instance named
\* default; reading any other name fails with the unknown-action error and
\* gives no instance.
C10_Delegation ==
    \A t \in Threads :
        (pc[t] \in {"done", "invoked"} /\ tv[t].op = "getattr") =>
            IF tv[t].verb \in PublicVerbs
            THEN /\ tv[t].exc # "RuntimeError"
                 /\ tv[t].name = "default"
            ELSE /\ tv[t].exc = "RuntimeError"
                 /\ tv[t].ret = NoObject

-----------------------------------------------------------------------------
(* Properties of the single-key verbs of one RedisCache (SpecKey).         *)

\* the entry the ring's node for prefix + k holds for k, in store st
EntryOf(st, k) ==
    LET pk == inst.key_prefix \o k IN st[get_node(inst.ring, pk)][pk]

\* the seconds a call asked for: its timeout argument, or the configured
\* default when that is None; 0 asks for no expiry
Asked(call) ==
    IF call.timeout = PyNone THEN inst.default_timeout ELSE call.timeout.n

\* the call wrote its key: it did not raise, and an add found the key absent
Wrote(call) ==
    /\ ~IsRaised(call.ret)
    /\ call.verb = "add" => call.ret = PyBool(TRUE)

\* C7: TTL normalization.  After set, add, inc or dec has written a key, the
\* key exists, with no expiry when the timeout asked for (the argument, or
\* the default when it is None) is 0, and else with that many seconds to
\* live.
C7_TtlNormalization ==
    (last.verb \in {"set", "add", "inc", "dec"} /\ Wrote(last)) =>
        /\ EntryOf(store, last.keys[1]).has
        /\ EntryOf(store, last.keys[1]).ttl = Asked(last)

\* C8: add is set-if-absent.  add(key, v) without a timeout argument on an
\* absent key stores v, so that a get of the key returns v as the codec
\* reads it back; on a present key it returns false and leaves every node as
\* it was.
C8_AddIfAbsent ==
    [][(last = Idle /\ last'.verb = "add" /\ last'.timeout = PyNone) =>
         LET k == last'.keys[1]
             v == last'.items[1][2]
         IN  IF ~EntryOf(store, k).has
             THEN get(inst, World(store', clients'), k, FALSE).ret = ReadBack(v)
             ELSE /\ last'.ret = PyBool(FALSE)
                  /\ store' = store]_vars

\* C9: inc without a timeout argument on an absent key returns delta and
\* leaves the key holding delta; after every inc or dec without a timeout
\* argument that did not raise, the key exists and carries the configured
\* default timeout (no expiry when that is 0).
C9_IncrementTtl ==
    [][(/\ last = Idle
        /\ last'.verb \in {"inc", "dec"}
        /\ last'.timeout = PyNone
        /\ ~IsRaised(last'.ret)) =>
         LET k == last'.keys[1]
             after == EntryOf(store', k)
         IN  /\ (last'.verb = "inc" /\ ~EntryOf(store, k).has) =>
                   /\ last'.ret = PyInt(last'.delta)
                   /\ after.has
                   /\ CounterValue(after) = last'.delta
             /\ after.has
             /\ after.ttl = Asked(last')]_vars

-----------------------------------------------------------------------------
(* Properties of a build with caching enabled (SpecVerb).                  *)

\* the CACHE_NODES entry thread t's build reads
NodesEntry(t) == config.CACHE_NODES[tv[t].name]

\* thread t's build reads a (backend, nodes) pair or a bare backend string
\* while caching is enabled
Dispatches(t) ==
    /\ Builds(t)
    /\ config.CACHE_ENABLED
    /\ NodesEntry(t).shape \in {"pair", "str"}

\* the build of thread t put a NullCache in the map and returned it
BuiltNull(t) ==
    /\ tv'[t].exc = ""
    /\ tv'[t].ret.inst = NullCache
    /\ IF tv'[t].ref = 0
       THEN instances'[tv'[t].name] = tv'[t].ret
       ELSE registry'[tv'[t].ref][tv'[t].name] = tv'[t].ret

\* the build of thread t raised and left every map as it was
BuildRaised(t, kind) ==
    /\ tv'[t].exc = kind
    /\ tv'[t].ret = NoObject
    /\ instances' = instances
    /\ registry' = registry

-----------------------------------------------------------------------------
(* Properties of reset() (Spec).                                           *)

\* thread t's reset() call runs in this step
Resets(t) == pc[t] = "idle" /\ pc'[t] = "done" /\ tv'[t].op = "reset"

\* the map named by ref after the step
MapAfter(ref) == IF ref = 0 THEN instances' ELSE registry'[ref]

\* C12: whatever instances are built (sharded or NullCache), reset() calls
\* reset() on each of them and does not raise, and leaves the map empty with
\* every name unbuilt; the next get_cache(name) constructs a new instance
\* from the configuration current at that time, one constructed after the
\* reset.
C12_ManagerReset ==
    [][\A t \in Threads :
         /\ Resets(t) =>
               /\ tv'[t].exc = ""
               /\ MapAfter(tv'[t].ref) = NoInstances
               /\ \A n \in Names : built'[tv'[t].ref][n] = 0
         /\ (Builds(t) /\ tv'[t].exc = "") =>
               /\ tv'[t].ret.inst = NewInstance(config, tv[t].name).inst
               /\ tv'[t].ret.id[3] = resets[tv[t].ref]
               /\ MapAfter(tv[t].ref)[tv[t].name] = tv'[t].ret]_vars

-----------------------------------------------------------------------------
(* Properties of a build that fails (SpecVerb).                            *)

\* the CACHE_NODES entry makes an enabled build fail: the name is missing,
\* the backend kind is rejected, or the node list is empty
Misconfigured(c) ==
    \/ c.shape = "missing"
    \/ c.shape \in {"pair", "str"} /\ c.backend \in {"memcached", "bogus"}
    \/ c.shape \in {"pair", "str"} /\ c.backend = "redis" /\ c.hosts.nodes = <<>>

\* C18: when get_cache(name) raises with caching enabled (name missing from
\* CACHE_NODES, rejected backend kind, or empty node list), the instance
\* maps are unchanged, the name stays unbuilt, nothing is returned and the
\* manager lock is released; every get_cache call that has ended left the
\* lock free, so a later call is not blocked, and it finds the name unbuilt
\* and builds again.
C18_FailedBuild ==
    [][\A t \in Threads :
         /\ (Builds(t) /\ config.CACHE_ENABLED /\ Misconfigured(NodesEntry(t))) =>
               tv'[t].exc # ""
         /\ (Builds(t) /\ tv'[t].exc # "") =>
               /\ config.CACHE_ENABLED
               /\ tv'[t].ret = NoObject
               /\ instances' = instances
               /\ registry' = registry
               /\ built' = built
               /\ MapAfter(tv[t].ref)[tv[t].name] = NoObject
               /\ lock' = 0
         /\ (pc[t] = "done" /\ tv[t].op = "get_cache") => lock # t]_vars

\* a get_cache for a name missing from CACHE_NODES has raised with caching
\* enabled: the lock is free, the name is unbuilt, and the instance built
\* earlier for the other name is still in the map
C18_Witness ==
    /\ pc[1] = "done"
    /\ tv[1].op = "get_cache"
    /\ tv[1].name = "other"
    /\ tv[1].exc = "KeyError"
    /\ config.CACHE_ENABLED
    /\ lock = 0
    /\ instances["other"] = NoObject
    /\ instances["default"].inst.kind = "redis"

\* C19: on a manager with scoping applied, reset() called under one scope
\* key resets and discards the instances built under that key and no
\* others: that scope's map is empty afterwards, the map of every other
\* scope key and the manager's own map are unchanged, and a later get_cache
\* under another key is given the instance its scope's map still holds.
C19_ScopedReset ==
    [][\A t \in Threads :
         /\ (Resets(t) /\ scoped) =>
               /\ tv'[t].exc = ""
               /\ registry'[tv'[t].key] = NoInstances
               /\ \A s \in Scopes \ {tv'[t].key} : registry'[s] = registry[s]
               /\ instances' = instances
         /\ (scoped /\ pc[t] = "lookup" /\ pc'[t] = "done") =>
               /\ tv'[t].ret = registry[tv'[t].key][tv[t].name]
               /\ tv'[t].ret # NoObject]_vars

-----------------------------------------------------------------------------
(* Properties of the connection map (SpecKey).                             *)

\* C14: after reset() on a sharded instance its connection map holds no
\* handle, so the first lookup of a node after the reset creates a new
\* handle instead of returning one created before the reset.
C14_RegistryReset ==
    last.verb = "reset" => \A u \in Urls : clients[u] = 0

-----------------------------------------------------------------------------
(* Properties of routing across single-key and batch verbs (SpecRoute).    *)

\* key k starts with the prefix
StartsWith(k, prefix) == \E rest \in PhysKeys : k = prefix \o rest

\* in store st every key that is present starts with the instance's prefix
\* and sits on the node the ring assigns to it, and on no other
Routed(st) ==
    \A u \in Urls, pk \in PhysKeys :
        st[u][pk].has =>
            /\ StartsWith(pk, inst.key_prefix)
            /\ u = get_node(inst.ring, pk)

\* C17: routing invariant.  After any sequence of set, add, set_many, inc,
\* dec, delete and delete_many on one sharded instance, every physical key
\* present is on the node ring.get_node(prefix + key) and on no other; a
\* set_many leaves for each of its keys the entry a single-key set of the
\* same value and timeout would have left, and get reads it back as it
\* reads its own writes; a get_many returns for each key what get returns.
C17_Routing ==
    [][/\ Routed(store')
       /\ (last = Idle /\ last'.verb = "set_many") =>
             \A i \in 1 .. Len(last'.items) :
                LET k == last'.items[i][1]
                    v == last'.items[i][2]
                    single == set(inst, Now, k, v, last'.timeout, last'.raw).w
                IN  /\ EntryOf(store', k) = EntryOf(single.store, k)
                    /\ get(inst, World(store', clients'), k, last'.raw).ret =
                          get(inst, single, k, last'.raw).ret
       /\ (last = Idle /\ last'.verb = "get_many" /\ ~IsRaised(last'.ret)) =>
             /\ Len(last'.ret.items) = Len(last'.keys)
             /\ \A i \in 1 .. Len(last'.keys) :
                   last'.ret.items[i] = get(inst, Now, last'.keys[i], last'.raw).ret
       /\ (last = Idle /\ last'.verb = "get" /\ ~last'.raw
             /\ hist[last'.keys[1]].on
             /\ hist[last'.keys[1]].age < hist[last'.keys[1]].t) =>
             last'.ret = ReadBack(hist[last'.keys[1]].value)]_vars

\* a get has read back the value a set_many wrote for a key whose node
\* differs from the node of the other key, while a get_many could read the
\* other key, written by a single-key set, from the other node
C17_Witness ==
    /\ last.verb = "get"
    /\ ~last.raw
    /\ last.keys = <<"a">>
    /\ hist["a"].on
    /\ hist["a"].age < hist["a"].t
    /\ last.ret = ReadBack(hist["a"].value)
    /\ ~hist["b"].on
    /\ EntryOf(store, "b").has
    /\ get_node(inst.ring, inst.key_prefix \o "a") #
          get_node(inst.ring, inst.key_prefix \o "b")

-----------------------------------------------------------------------------
(* Properties of clear() (SpecClear).                                      *)

\* a clear() call runs in this step
Clears == last = Idle /\ last'.verb = "clear"

\* C15: clear() with a non-empty prefix leaves no key that starts with the
\* prefix on any node and leaves every key that does not start with the
\* prefix unchanged, value and expiry, on every node; with an empty prefix
\* it empties every node.
C15_ClearFrame ==
    [][Clears =>
         \A u \in Urls, pk \in PhysKeys :
            IF inst.key_prefix = "" THEN ~store'[u][pk].has
            ELSE IF StartsWith(pk, inst.key_prefix) THEN ~store'[u][pk].has
            ELSE store'[u][pk] = store[u][pk]]_vars

\* the keys of node u that KEYS prefix* lists before the step
Listed(u) ==
    {pk \in PhysKeys :
        /\ store[u][pk].has
        /\ GlobMatch(Chars(inst.key_prefix \o "*"), Chars(pk))}

\* the positions, in node order, of the nodes that hold a listed key
Holders == {j \in 1 .. Len(inst.nodes) : Listed(inst.nodes[j]) # {}}

LastOf(S) == CHOOSE j \in S : \A i \in S : i <= j

\* C16 as amended: clear() returns no aggregate but the result of the last
\* command it issued, in node order.  With an empty prefix that is the flush
\* of the final node (true).  With a prefix it is the number of keys deleted
\* on the last node that held a key listed for prefix*; nodes without such a
\* key issue no delete and leave the result of an earlier node in place; it
\* is false when no node held one.
C16_ClearResult ==
    [][Clears =>
         last'.ret =
            IF inst.key_prefix = "" THEN PyBool(TRUE)
            ELSE IF Holders = {} THEN PyBool(FALSE)
            ELSE PyInt(Cardinality(Listed(inst.nodes[LastOf(Holders)])))]_vars

\* a clear() with a prefix has returned the count of a node on which it
\* deleted two keys, and other users' keys are left on both nodes
C16_Witness ==
    /\ last.verb = "clear"
    /\ inst.key_prefix = "p:"
    /\ last.ret = PyInt(2)
    /\ \A u \in Urls : store[u]["a"].has /\ ~store[u]["p:a"].has

\* C16 as stated: the returned value is what the final node, in node
\* order, produced, also when the final node holds no listed key while an
\* earlier node does (a delete of nothing: 0 or false).
C16_AsStated ==
    [][Clears =>
         LET final == inst.nodes[Len(inst.nodes)] IN
         IF inst.key_prefix = "" THEN last'.ret = PyBool(TRUE)
         ELSE IF Listed(final) # {}
              THEN last'.ret = PyInt(Cardinality(Listed(final)))
              ELSE last'.ret \in {PyBool(FALSE), PyInt(0)}]_vars

-----------------------------------------------------------------------------
(* Properties of concurrent connection lookups (SpecConn).                 *)

\* C13: within one RedisCache, at most one handle is ever created for a
\* node url, also when several threads make their first lookup of the url
\* concurrently, and all lookups of the url return the same handle.
C13_OneHandle ==
    /\ \A u \in Urls : made[u] <= 1
    /\ \A t1, t2 \in Threads :
          (th[t1].pc = "done" /\ th[t2].pc = "done" /\ th[t1].url = th[t2].url) =>
              th[t1].ret = th[t2].ret

-----------------------------------------------------------------------------
(* Properties of concurrent add calls (SpecAdd).                           *)

\* every thread has called add on the same key with a positive timeout,
\* and every call has returned
AllAdded ==
    /\ \A t \in Threads : th[t].pc = "done" /\ th[t].time > 0
    /\ \A t1, t2 \in Threads : th[t1].key = th[t2].key

\* C20: when the callers run add on the same absent key concurrently with
\* a positive timeout, then under every interleaving of their SETNX and
\* EXPIRE steps exactly one caller is returned true, every other caller is
\* returned false, the key holds that caller's value, and once all calls
\* have finished the key carries that caller's timeout.
C20_ConcurrentAdd ==
    AllAdded =>
        \E w \in Threads :
            LET e == store[th[w].url][th[w].key] IN
            /\ th[w].ret = PyBool(TRUE)
            /\ \A t \in Threads \ {w} : th[t].ret = PyBool(FALSE)
            /\ e.has
            /\ PyBytes(e.enc, e.s) = dump_object(th[w].value)
            /\ e.ttl = th[w].time
            /\ e.ttl > 0

\* both callers have finished an add of different values to the same key;
\* the second thread won, the first was refused
C20_Witness ==
    /\ AllAdded
    /\ th[1].value # th[2].value
    /\ th[2].ret = PyBool(TRUE)
    /\ th[1].ret = PyBool(FALSE)
    /\ store[th[2].url][th[2].key].ttl = MaxTimeout


====
